---- MODULE Spec2Model ----
(***************************************************************************)
(* Model of backfiller_t (src/src/clustering/backfiller.hpp): the          *)
(* backfiller side of the replication backfill protocol.                   *)
(*                                                                         *)
(* One backfiller instance is modelled from the end of its constructor to  *)
(* the end of its (implicit) destructor.  Every invocation of on_backfill  *)
(* is a "handler" h; it runs in its own coroutine and interleaves with the *)
(* other handlers, with on_cancel_backfill and with the destructor at the  *)
(* suspension points of the store's backfill operation.                    *)
(***************************************************************************)
EXTENDS Integers, Sequences, FiniteSets, TLC

\* ---------------------------------------------------------------- bounds
\* Number of start-backfill messages handled in one run.
MaxHandlers == 2
\* Largest number of chunks the store yields for one request.
MaxChunks == 2
\* Number of distinct session ids the backfillee picks from.
NumSessionIds == 2

Handlers == 1..MaxHandlers
SessionIds == 1..NumSessionIds
\* A backfill request is abstracted to the number of chunks the store yields
\* for it: none (the backfillee is up to date) or MaxChunks.
Requests == {0, MaxChunks}
NoSession == 0

\* The regions a store may cover.
Regions == {"a_to_m", "a_to_z"}

VARIABLES
    store_region,        \* store->get_region()
    store_timestamp,     \* store->get_timestamp()
    ctor,                \* position of the constructor backfiller_t()
    dtor,                \* position of ~backfiller_t in the member destructors
    local_interruptors,  \* std::map<session_id_t, cond_t *>: session id -> handler
    pc,                  \* pc[h]: position of handler h inside on_backfill
    session_id,          \* session_id[h]: argument of on_backfill
    request,             \* request[h]: argument of on_backfill
    pos,                 \* pos[h]: number of chunks the store has produced for h
    pulsed,              \* pulsed[h]: h's local_interruptor is pulsed
    success,             \* success[h]: the local `success` of on_backfill
    end,                 \* end[h]: the local `end` of on_backfill
    sent,                \* sent[h]: the send() calls h has issued, in order
    fired_in_store,      \* fired_in_store[h]: the signals that had fired when h's store call ended
    early_cancel,        \* session id of a cancel-backfill handled before any start-backfill
                         \* for that id, until the handler for that id has returned
    cancel_inflight,     \* the cancel-backfill message sent and not yet handled (its session id)
    aborted              \* the process died on a failed assertion or on memory corruption

vars == <<store_region, store_timestamp, ctor, dtor, local_interruptors, pc, session_id, request, pos, pulsed,
          success, end, sent, fired_in_store, early_cancel, cancel_inflight, aborted>>

\* ------------------------------------------------------- external store
\* branch_find(branch_history, store_branch).region
BranchRegion == "a_to_m"

\* Timestamp at which the store's branch was created.
BranchInitialTimestamp == 5

\* The timestamps the store may be at when the backfiller is constructed.
StoreTimestamps == {BranchInitialTimestamp - 1, BranchInitialTimestamp}

\* The chunks the store yields for a request, in the order it yields them.
StoreChunks(req) == [i \in 1..req |-> BranchInitialTimestamp + 2 * i]

\* The timestamp the store's backfill operation returns for a request.
StoreBackfillEnd(req) == BranchInitialTimestamp + 2 * req

\* ------------------------------------------------------------ addresses
\* The backfillee's mailboxes for a session: chunk_cont and end_cont of the
\* start-backfill message.
ChunkMailbox(sid) == [kind |-> "chunk", id |-> sid]
EndMailbox(sid) == [kind |-> "end", id |-> sid]

chunk_cont(h) == ChunkMailbox(session_id[h])
end_cont(h) == EndMailbox(session_id[h])

\* ------------------------------------------------------- std::map helpers
MapInsert(m, k, v) == [x \in DOMAIN m \cup {k} |-> IF x = k THEN v ELSE m[x]]
MapErase(m, k) == [x \in DOMAIN m \ {k} |-> m[x]]
EmptyMap == << >>

\* ----------------------------------------------------- constructor order
\* The member initialisers have run (and the process has not died in the
\* constructor body).
MembersConstructed == ctor \in {"advertised", "done"}

\* The constructor has returned: the backfiller exists.
Constructed == ctor = "done"

\* ------------------------------------------------------ destructor order
\* Members are destroyed in reverse order of declaration: advertisement,
\* cancel_backfill_mailbox, backfill_mailbox, local_interruptors, drainer.
DtorOrder == [alive |-> 0, advert_gone |-> 1, mailboxes_gone |-> 2,
              draining |-> 3, destroyed |-> 4]

DtorReached(p) == DtorOrder[dtor] >= DtorOrder[p]

\* Faulty variant: the advertisement is the last thing to go, after the
\* drain has completed.
AdvertisementPublished_until_destroyed ==
    MembersConstructed /\ ~DtorReached("destroyed")

AdvertisementPublished == MembersConstructed /\ ~DtorReached("advert_gone")
CancelMailboxAlive == MembersConstructed /\ ~DtorReached("mailboxes_gone")
BackfillMailboxAlive == MembersConstructed /\ ~DtorReached("mailboxes_gone")
RegistryAlive == MembersConstructed /\ ~DtorReached("draining")
\* keepalive.get_drain_signal(): pulsed when ~auto_drainer_t begins.
DrainSignalPulsed == DtorReached("draining")

\* ------------------------------------------------------------- handlers
InFlight(h) == pc[h] = "in_store"

\* Faulty variant: on_backfill holds no drainer lock.
HoldsKeepalive_dropped(h) == FALSE

\* The keepalive lock of handler h is a by-value parameter of on_backfill:
\* it is held from entry to return.
HoldsKeepalive(h) == InFlight(h)

\* auto_drainer_t's count of locks: one bound into each mailbox callback,
\* one per running handler.
DrainerRefcount ==
    (IF BackfillMailboxAlive THEN 1 ELSE 0)
    + (IF CancelMailboxAlive THEN 1 ELSE 0)
    + Cardinality({h \in Handlers : HoldsKeepalive(h)})

\* wait_any_t interrupted(&local_interruptor, keepalive.get_drain_signal())
\* Faulty variant: the wait_any_t watches every handler's interruptor, not
\* only this handler's.
Interrupted_shared(h) == (\E g \in Handlers : pulsed[g]) \/ DrainSignalPulsed

Interrupted(h) == pulsed[h] \/ DrainSignalPulsed

\* Which of the two signals of `interrupted` have fired.
FiredSignals(h) ==
    {s \in {"local"} : pulsed[h]} \cup {s \in {"drain"} : DtorReached("draining")}

\* Faulty variant: the newest chunk overtakes the ones sent before it.
send_fun_reordered(h, chunk) == <<[to |-> chunk_cont(h), body |-> chunk]>> \o sent[h]

\* Faulty variant: the chunk is sent to end_cont instead of chunk_cont.
send_fun_to_end(h, chunk) == Append(sent[h], [to |-> end_cont(h), body |-> chunk])

\* send_fun = bind(send, cluster, chunk_cont, _1)
send_fun(h, chunk) == Append(sent[h], [to |-> chunk_cont(h), body |-> chunk])

\* try { end = store->backfiller(...); success = true; }
SuccessOnReturn == TRUE

\* Faulty variant: the catch block leaves success set.
SuccessOnInterrupt_set == TRUE

\* catch (interrupted_exc_t) { ...; success = false; }
SuccessOnInterrupt == FALSE

\* Faulty variant: the confirmation is sent in the try block and again after it.
Confirmation_twice(h, ok, ts) ==
    IF ok THEN <<[to |-> end_cont(h), body |-> ts], [to |-> end_cont(h), body |-> ts]>>
    ELSE << >>

\* Faulty variant: the confirmation carries `end` as it was before the store
\* call assigned it.
Confirmation_stale(h, ok, ts) ==
    IF ok THEN <<[to |-> end_cont(h), body |-> end[h]]>> ELSE << >>

\* if (success) send(cluster, end_cont, end)
Confirmation(h, ok, ts) ==
    IF ok THEN <<[to |-> end_cont(h), body |-> ts]>> ELSE << >>

\* The session ids in use: those of the handlers entered so far and of the
\* cancel-backfill message under way.
UsedIds == ({session_id[h] : h \in Handlers} \cup {cancel_inflight}) \ {NoSession}

\* The session ids for which on_backfill has been entered so far.
StartedIds == {session_id[h] : h \in Handlers} \ {NoSession}

MaxOf(S) == IF S = {} THEN 0 ELSE CHOOSE x \in S : \A y \in S : y <= x

\* Session ids are opaque to the backfiller (it only compares them), so the
\* backfillee's ids are numbered in order of first use: a message carries an
\* id in use or the next unused one.
IdChoices == {sid \in SessionIds : sid <= MaxOf(UsedIds) + 1}

\* The session ids are unique per outstanding backfill request.
Outstanding(sid) == \E h \in Handlers : InFlight(h) /\ session_id[h] = sid

Init ==
    /\ store_region \in Regions
    /\ store_timestamp \in StoreTimestamps
    /\ ctor = "start"
    /\ dtor = "alive"
    /\ local_interruptors = EmptyMap
    /\ pc = [h \in Handlers |-> "fresh"]
    /\ session_id = [h \in Handlers |-> NoSession]
    /\ request = [h \in Handlers |-> 0]
    /\ pos = [h \in Handlers |-> 0]
    /\ pulsed = [h \in Handlers |-> FALSE]
    /\ success = [h \in Handlers |-> FALSE]
    /\ end = [h \in Handlers |-> 0]
    /\ sent = [h \in Handlers |-> << >>]
    /\ fired_in_store = [h \in Handlers |-> {}]
    /\ early_cancel = NoSession
    /\ cancel_inflight = NoSession
    /\ aborted = FALSE

\* Faulty variant: a cancel that found no entry is remembered and pulses the
\* interruptor of the next handler of its session id.
FreshInterruptor_remembers(sid) == sid = early_cancel

\* Faulty variant: only the region is compared.
PreconditionsHold_region_only == store_region = BranchRegion

\* The two conditions the constructor body asserts.
PreconditionsHold ==
    /\ store_region = BranchRegion
    /\ store_timestamp >= BranchInitialTimestamp

\* backfiller_t(), the member initialisers: the drainer and the registry
\* exist, the two mailboxes are open and the advertisement is published.
ConstructMembers ==
    /\ ctor = "start"
    /\ ctor' = "advertised"
    /\ UNCHANGED <<store_region, store_timestamp, dtor, local_interruptors, pc,
                   session_id, request, pos, pulsed, success, end, sent,
                   fired_in_store, early_cancel,
                   cancel_inflight, aborted>>

\* backfiller_t(), the body: the two rasserts.  A failed one is fatal.
CheckPreconditions ==
    /\ ctor = "advertised"
    /\ IF PreconditionsHold
       THEN ctor' = "done" /\ UNCHANGED aborted
       ELSE ctor' = "failed" /\ aborted' = TRUE
    /\ UNCHANGED <<store_region, store_timestamp, dtor, local_interruptors, pc,
                   session_id, request, pos, pulsed, success, end, sent,
                   fired_in_store, early_cancel,
                   cancel_inflight>>

\* cond_t local_interruptor: a new cond_t, not pulsed, whatever cancels were
\* handled for the session id before.
FreshInterruptor(sid) == FALSE

\* on_backfill, from entry to the call of store->backfiller(): the local
\* interruptor is created and registered under the session id.
OnBackfillEnter(h, sid, req) ==
    /\ Constructed
    /\ ~aborted
    /\ BackfillMailboxAlive
    /\ pc[h] = "fresh"
    /\ \A g \in Handlers : g < h => pc[g] # "fresh"
    /\ sid \in IdChoices
    /\ ~Outstanding(sid)
    /\ session_id' = [session_id EXCEPT ![h] = sid]
    /\ request' = [request EXCEPT ![h] = req]
    /\ local_interruptors' = MapInsert(local_interruptors, sid, h)
    /\ pulsed' = [pulsed EXCEPT ![h] = FreshInterruptor(sid)]
    /\ pc' = [pc EXCEPT ![h] = "in_store"]
    /\ UNCHANGED <<store_region, store_timestamp, ctor, dtor, pos, success, end, sent, fired_in_store,
                   early_cancel, cancel_inflight, aborted>>

\* The store produces its next chunk and hands it to send_fun.  The store
\* observes its interrupt cooperatively, so it may still produce a chunk
\* after the interrupt has fired.
StoreSendChunk(h) ==
    /\ Constructed
    /\ ~aborted
    /\ pc[h] = "in_store"
    /\ pos[h] < Len(StoreChunks(request[h]))
    /\ sent' = [sent EXCEPT ![h] = send_fun(h, StoreChunks(request[h])[pos[h] + 1])]
    /\ pos' = [pos EXCEPT ![h] = pos[h] + 1]
    /\ UNCHANGED <<store_region, store_timestamp, ctor, dtor, local_interruptors, pc, session_id, request, pulsed,
                   success, end, fired_in_store, early_cancel, cancel_inflight, aborted>>

\* The tail of on_backfill once the store call has ended with `ok` and `ts`:
\* the confirmation, then the destructors of the locals (be_interruptible
\* erases the registry entry, local_interruptor is destroyed, keepalive is
\* released).  Erasing from a registry that was already destroyed is
\* undefined: the process either dies there or carries on.
HandlerExit(h, ok, ts) ==
    /\ success' = [success EXCEPT ![h] = ok]
    /\ end' = [end EXCEPT ![h] = ts]
    /\ fired_in_store' = [fired_in_store EXCEPT ![h] = FiredSignals(h)]
    /\ sent' = [sent EXCEPT ![h] = sent[h] \o Confirmation(h, ok, ts)]
    /\ \/ /\ RegistryAlive
          /\ local_interruptors' = MapErase(local_interruptors, session_id[h])
          /\ pc' = [pc EXCEPT ![h] = "returned"]
          /\ pulsed' = [pulsed EXCEPT ![h] = FALSE]
          /\ UNCHANGED aborted
       \/ /\ ~RegistryAlive
          /\ \/ /\ aborted' = TRUE
                /\ pc' = [pc EXCEPT ![h] = "crashed"]
                /\ UNCHANGED pulsed
             \/ /\ aborted' = FALSE
                /\ pc' = [pc EXCEPT ![h] = "returned"]
                /\ pulsed' = [pulsed EXCEPT ![h] = FALSE]
          /\ UNCHANGED local_interruptors
    /\ early_cancel' = IF early_cancel = session_id[h] THEN NoSession ELSE early_cancel
    /\ UNCHANGED <<store_region, store_timestamp, ctor, dtor, session_id, request, pos,
                   cancel_inflight>>

\* store->backfiller() returns normally, and on_backfill runs to its end.
OnBackfillFinish(h) ==
    /\ Constructed
    /\ ~aborted
    /\ pc[h] = "in_store"
    /\ pos[h] = Len(StoreChunks(request[h]))
    /\ ~Interrupted(h)
    /\ HandlerExit(h, SuccessOnReturn, StoreBackfillEnd(request[h]))

\* store->backfiller() unwinds with interrupted_exc_t, and on_backfill runs
\* to its end.
OnBackfillInterrupted(h) ==
    /\ Constructed
    /\ ~aborted
    /\ pc[h] = "in_store"
    /\ Interrupted(h)
    /\ HandlerExit(h, SuccessOnInterrupt, end[h])

\* The backfillee sends a cancel-backfill message.
SendCancel(sid) ==
    /\ Constructed
    /\ ~aborted
    /\ CancelMailboxAlive
    /\ cancel_inflight = NoSession
    /\ sid \in IdChoices
    /\ cancel_inflight' = sid
    /\ UNCHANGED <<store_region, store_timestamp, ctor, dtor, local_interruptors, pc, session_id, request, pos, pulsed,
                   success, end, sent, fired_in_store, early_cancel, aborted>>

\* Faulty variant: lower_bound() instead of find(): the entry with the least key not
\* below the session id is pulsed.
CancelTargets_lower_bound(sid) ==
    LET above == {k \in DOMAIN local_interruptors : k >= sid} IN
    IF above = {} THEN {}
    ELSE {local_interruptors[CHOOSE k \in above : \A j \in above : k <= j]}

\* Faulty variant: a cancel that finds its session pulses every registered
\* interruptor.
CancelTargets_all(sid) ==
    IF sid \in DOMAIN local_interruptors
    THEN {local_interruptors[k] : k \in DOMAIN local_interruptors}
    ELSE {}

\* The cond_t's on_cancel_backfill pulses for a session id.
CancelTargets(sid) ==
    IF sid \in DOMAIN local_interruptors THEN {local_interruptors[sid]} ELSE {}

\* on_cancel_backfill.  Pulsing a cond_t that is already pulsed is undefined:
\* the process either dies on the assertion or pulses again.
OnCancelBackfill(sid) ==
    /\ Constructed
    /\ ~aborted
    /\ CancelMailboxAlive
    /\ cancel_inflight = sid
    /\ cancel_inflight' = NoSession
    /\ pulsed' = [h \in Handlers |-> pulsed[h] \/ h \in CancelTargets(sid)]
    /\ IF \E h \in CancelTargets(sid) : pulsed[h]
       THEN aborted' \in BOOLEAN
       ELSE aborted' = aborted
    /\ early_cancel' = IF sid \notin StartedIds THEN sid ELSE early_cancel
    /\ UNCHANGED <<store_region, store_timestamp, ctor, dtor, local_interruptors, pc, session_id, request, pos,
                   success, end, sent, fired_in_store>>

\* ~backfiller_t, one member at a time.
DestroyAdvertisement ==
    /\ Constructed
    /\ ~aborted
    /\ dtor = "alive"
    /\ dtor' = "advert_gone"
    /\ UNCHANGED <<store_region, store_timestamp, ctor, local_interruptors, pc, session_id, request, pos, pulsed,
                   success, end, sent, fired_in_store, early_cancel, cancel_inflight, aborted>>

\* cancel_backfill_mailbox, then backfill_mailbox; a message still on its way
\* to a destroyed mailbox is dropped.
DestroyMailboxes ==
    /\ Constructed
    /\ ~aborted
    /\ dtor = "advert_gone"
    /\ dtor' = "mailboxes_gone"
    /\ cancel_inflight' = NoSession
    /\ UNCHANGED <<store_region, store_timestamp, ctor, local_interruptors, pc, session_id, request, pos, pulsed,
                   success, end, sent, fired_in_store, early_cancel, aborted>>

\* local_interruptors is destroyed, then ~auto_drainer_t begins: it pulses
\* the drain signal ...
DrainerBegin ==
    /\ Constructed
    /\ ~aborted
    /\ dtor = "mailboxes_gone"
    /\ dtor' = "draining"
    /\ local_interruptors' = EmptyMap
    /\ UNCHANGED <<store_region, store_timestamp, ctor, pc, session_id, request, pos, pulsed,
                   success, end, sent, fired_in_store, early_cancel, cancel_inflight, aborted>>

\* ... and block until every lock has been released.
DrainerFinish ==
    /\ Constructed
    /\ ~aborted
    /\ dtor = "draining"
    /\ DrainerRefcount = 0
    /\ dtor' = "destroyed"
    /\ UNCHANGED <<store_region, store_timestamp, ctor, local_interruptors, pc, session_id, request, pos, pulsed,
                   success, end, sent, fired_in_store, early_cancel, cancel_inflight, aborted>>

Next ==
    \/ ConstructMembers
    \/ CheckPreconditions
    \/ \E h \in Handlers, sid \in SessionIds, req \in Requests : OnBackfillEnter(h, sid, req)
    \/ \E h \in Handlers : StoreSendChunk(h)
    \/ \E h \in Handlers : OnBackfillFinish(h)
    \/ \E h \in Handlers : OnBackfillInterrupted(h)
    \/ \E sid \in SessionIds : SendCancel(sid)
    \/ \E sid \in SessionIds : OnCancelBackfill(sid)
    \/ DestroyAdvertisement
    \/ DestroyMailboxes
    \/ DrainerBegin
    \/ DrainerFinish

Spec == Init /\ [][Next]_vars

\* The code's scheduling: a store call whose interrupt has fired eventually
\* unwinds, a store call that can return eventually does, a delivered cancel
\* is eventually handled, and the destructor, once entered, keeps running.
Fairness ==
    /\ \A h \in Handlers : WF_vars(OnBackfillInterrupted(h))
    /\ \A h \in Handlers : WF_vars(OnBackfillFinish(h))
    /\ WF_vars(ConstructMembers)
    /\ WF_vars(CheckPreconditions)
    /\ WF_vars(DestroyMailboxes)
    /\ WF_vars(DrainerBegin)
    /\ WF_vars(DrainerFinish)

FairSpec == Init /\ [][Next]_vars /\ Fairness

\* ------------------------------------------------------------ observers
\* The messages handler h has sent to an address, in order.
SentTo(h, addr) == SelectSeq(sent[h], LAMBDA m : m.to = addr)

\* The completion messages handler h has sent.
Completions(h) == SentTo(h, end_cont(h))

\* The chunks handler h has sent to its chunk address, in order.
ChunksDelivered(h) ==
    LET msgs == SentTo(h, chunk_cont(h)) IN [i \in 1..Len(msgs) |-> msgs[i].body]

\* The chunks the store has produced for handler h so far, in order.
ChunksProduced(h) == SubSeq(StoreChunks(request[h]), 1, pos[h])

\* The handlers that have been entered.
Entered(h) == pc[h] # "fresh"

\* Number of completion messages sent to the end address of a session id.
CompletionsForId(sid) ==
    Cardinality({x \in Handlers \X (1..(MaxChunks + 2)) :
                    /\ session_id[x[1]] = sid
                    /\ x[2] <= Len(sent[x[1]])
                    /\ sent[x[1]][x[2]].to = EndMailbox(sid)})

\* This step is on_cancel_backfill handling a cancel for sid.
CancelStep(sid) ==
    /\ cancel_inflight = sid
    /\ cancel_inflight' = NoSession
    /\ dtor' = dtor

\* ------------------------------------------------------------------- C1
\* C1 (as stated): for every session id, the number of completion messages
\* sent to the end address of that session id is 0 or 1, never 2.
C1_AtMostOneCompletionPerSessionId ==
    \A sid \in SessionIds : CompletionsForId(sid) <= 1

\* C1 (amended): every start-backfill handling sends 0 or 1 completion
\* messages, so a session id receives at most as many completions as
\* start-backfill messages were handled for it.
C1_AtMostOneCompletionPerHandling ==
    /\ \A h \in Handlers : Len(Completions(h)) <= 1
    /\ \A sid \in SessionIds :
          CompletionsForId(sid) <= Cardinality({h \in Handlers : session_id[h] = sid})

\* Two handlings of the same session id have both sent their completion.
C1_Witness ==
    \E g, h \in Handlers :
        /\ g # h
        /\ session_id[g] = session_id[h]
        /\ Len(Completions(g)) = 1
        /\ Len(Completions(h)) = 1

\* ------------------------------------------------------------------- C2
\* C2: a handler whose interrupt (local cancel or drain signal) had fired
\* when its store call ended never sends a completion message.
C2_NoCompletionAfterInterruption ==
    \A h \in Handlers : fired_in_store[h] # {} => Completions(h) = << >>

\* A handler was cancelled before its store produced all chunks and has
\* returned; another was caught by the drain signal.
C2_Witness ==
    \E g, h \in Handlers :
        /\ pc[g] = "returned" /\ fired_in_store[g] = {"local"}
        /\ pos[g] < Len(StoreChunks(request[g]))
        /\ pc[h] = "returned" /\ fired_in_store[h] = {"drain"}

\* ------------------------------------------------------------------- C3
\* C3: in every reachable state a session id is a key of the session
\* registry exactly when a start-backfill handler for that id has been
\* entered and has not yet returned.
C3_ScopedSessionEntry ==
    \A sid \in SessionIds : (sid \in DOMAIN local_interruptors) <=> Outstanding(sid)

\* ------------------------------------------------------------------- C4
\* C4: handling a cancel-backfill whose session id is not in the registry
\* leaves the registry, every interrupt signal, every handler and all sent
\* messages unchanged, and raises no error.
C4_CancelUnregisteredNoOp ==
    [][\A sid \in SessionIds :
          (CancelStep(sid) /\ sid \notin DOMAIN local_interruptors)
          => UNCHANGED <<local_interruptors, pulsed, pc, session_id, request, pos,
                         success, end, sent, fired_in_store, aborted>>]_vars

\* A cancel was absorbed while a handler of another session is in flight,
\* not interrupted.
C4_Witness ==
    /\ early_cancel # NoSession
    /\ early_cancel \notin StartedIds
    /\ cancel_inflight = NoSession
    /\ \E h \in Handlers : InFlight(h) /\ ~pulsed[h]
    /\ ~aborted

\* ------------------------------------------------------------------- C5
\* C5: no session's local interrupt signal is ever triggered when it is
\* already triggered.
C5_InterruptPulsedAtMostOnce ==
    [][\A sid \in SessionIds : \A h \in Handlers :
          (CancelStep(sid) /\ h \in CancelTargets(sid)) => ~pulsed[h]]_vars

\* ------------------------------------------------------------------- C6
\* C6: destruction of the backfiller does not complete while a
\* start-backfill handler is in flight: when it has completed, every handler
\* that was entered has returned.
C6_DrainSafety ==
    dtor = "destroyed" => \A h \in Handlers : Entered(h) => pc[h] = "returned"

\* Destruction has completed after all handlers were caught in flight by
\* the drain signal.
C6_Witness ==
    /\ dtor = "destroyed"
    /\ \A h \in Handlers : pc[h] = "returned" /\ fired_in_store[h] = {"drain"}

\* ------------------------------------------------------------------- C7
\* C7: once shutdown has begun, every in-flight handler eventually returns
\* and shutdown eventually completes.
C7_ShutdownTerminates ==
    (dtor # "alive") ~>
        (dtor = "destroyed" /\ \A h \in Handlers : Entered(h) => pc[h] = "returned")

\* ------------------------------------------------------------------- C8
\* C8: a handler in flight whose session was cancelled eventually returns,
\* and never sends a completion message.
C8_CancellationEffective ==
    \A h \in Handlers :
        (InFlight(h) /\ pulsed[h]) ~> (pc[h] = "returned" /\ Completions(h) = << >>)

\* ------------------------------------------------------------------- C9
\* C9: for every handler, the chunk messages sent to chunk_address are
\* exactly the chunks the store has produced so far, in the same order, and
\* the handler has sent nothing else but its completion.
C9_ChunkOrdering ==
    \A h \in Handlers :
        /\ ChunksDelivered(h) = ChunksProduced(h)
        /\ Len(sent[h]) = Len(ChunksDelivered(h)) + Len(Completions(h))

\* Two handlers stream concurrently; one has sent all its chunks, the other
\* some.
C9_Witness ==
    \E g, h \in Handlers :
        /\ g # h
        /\ InFlight(g) /\ InFlight(h)
        /\ pos[g] = MaxChunks /\ MaxChunks >= 2
        /\ pos[h] >= 1

\* ------------------------------------------------------------------ C10
\* C10: what a handler sends is zero or more chunks followed by at most one
\* completion; the completion comes after the send of the last chunk the
\* store yields for the request, and no chunk comes after it.
C10_ResponseShape ==
    \A h \in Handlers :
        /\ Len(Completions(h)) <= 1
        /\ \A i \in 1..Len(sent[h]) :
              sent[h][i].to = end_cont(h) =>
                  /\ i = Len(sent[h])
                  /\ ChunksDelivered(h) = StoreChunks(request[h])

\* A handler has sent all its chunks and then its completion; another has
\* sent a chunk and no completion.
C10_Witness ==
    \E g, h \in Handlers :
        /\ pc[g] = "returned" /\ Len(Completions(g)) = 1
        /\ Len(ChunksDelivered(g)) = MaxChunks
        /\ pc[h] = "returned" /\ Len(Completions(h)) = 0
        /\ Len(ChunksDelivered(h)) >= 1

\* ------------------------------------------------------------------ C11
\* C11: whenever the store's backfill operation has returned normally with
\* timestamp t, the handler has sent exactly one completion message, to
\* end_address, and its payload is t.
C11_CompletionCarriesStoreResult ==
    \A h \in Handlers :
        success[h] =>
            Completions(h) = <<[to |-> EndMailbox(session_id[h]),
                                body |-> StoreBackfillEnd(request[h])]>>

\* A store call that yielded MaxChunks chunks has returned and the handler
\* has sent its timestamp; another returned at once with the initial one.
C11_Witness ==
    \E g, h \in Handlers :
        /\ success[g] /\ request[g] = MaxChunks /\ pc[g] = "returned"
        /\ Completions(g)[1].body = BranchInitialTimestamp + 2 * MaxChunks
        /\ success[h] /\ request[h] = 0
        /\ Completions(h)[1].body = BranchInitialTimestamp

\* ------------------------------------------------------------------ C14
\* C14 as stated: the advertisement is withdrawn only after the drain has
\* completed, so it is still published at every state in which a handler is
\* in flight.
C14_AdvertisedWhileInFlight ==
    \A h \in Handlers : InFlight(h) => AdvertisementPublished

\* C14 amended: the advertisement is the first member destroyed.  It is
\* already withdrawn whenever a mailbox is gone, the shutdown signal is
\* pulsed or the drain has completed, whether or not handlers are in flight.
C14_AdvertisementWithdrawnFirst ==
    (~BackfillMailboxAlive \/ ~CancelMailboxAlive \/ DrainSignalPulsed
        \/ DtorReached("destroyed"))
        => ~AdvertisementPublished

\* The drain is waiting for a handler in flight and the advertisement has
\* already been withdrawn.
C14_Witness ==
    /\ dtor = "draining"
    /\ \E h \in Handlers : InFlight(h)
    /\ ~AdvertisementPublished

\* ------------------------------------------------------------------ C17
\* C17: whenever a handler's store call has unwound with an interruption
\* (the handler left the store without success), at least one of the two
\* signals of its combined interrupt had fired at that moment, so
\* rassert(interrupted.is_pulsed()) holds; no handler that was neither
\* cancelled nor caught by shutdown unwinds.
C17_InterruptionAssertionHolds ==
    \A h \in Handlers :
        (pc[h] \in {"returned", "crashed"} /\ ~success[h])
            => fired_in_store[h] # {}

\* A handler unwound with both its local interruptor and the drain signal
\* pulsed, and another unwound on its local interruptor alone.
C17_Witness ==
    \E g, h \in Handlers :
        /\ pc[g] \in {"returned", "crashed"} /\ ~success[g]
        /\ fired_in_store[g] = {"local", "drain"}
        /\ pc[h] = "returned" /\ ~success[h]
        /\ fired_in_store[h] = {"local"}

C19_RegistryCountsHandlers ==
    /\ Cardinality(DOMAIN local_interruptors)
          = Cardinality({h \in Handlers : InFlight(h)})
    /\ \A g, h \in Handlers :
          (InFlight(g) /\ InFlight(h) /\ session_id[g] = session_id[h]) => g = h

\* ------------------------------------------------------------------ C20
\* C20: the session registry is not destroyed until the drainer has seen its
\* last lock released: every step in which a handler leaves on_backfill, and
\* so erases its registry entry, happens while the registry still exists.
C20_RegistryOutlivesHandlers ==
    [][\A h \in Handlers :
          (InFlight(h) /\ ~InFlight(h)') => RegistryAlive]_vars

\* ------------------------------------------------------------------ C16
\* C16: a cancel-backfill for session id s that was handled before the
\* start-backfill for s registered its entry is lost: the handler for s
\* starts with its local interruptor not pulsed, and when its store call
\* ends with no signal fired it has succeeded and sends its one completion
\* message.
C16_EarlyCancelLost ==
    [][\A h \in Handlers :
          /\ (pc[h] = "fresh" /\ InFlight(h)' /\ early_cancel = session_id'[h])
                => ~pulsed'[h]
          /\ (InFlight(h) /\ ~InFlight(h)' /\ early_cancel = session_id[h]
                  /\ FiredSignals(h) = {})
                => /\ success'[h]
                   /\ Completions(h)' = <<[to |-> EndMailbox(session_id[h]),
                                           body |-> StoreBackfillEnd(request[h])]>>]_vars

\* A cancel was handled for a session id no start-backfill had used yet; the
\* handler that then came for that id is in flight, not interrupted, and its
\* store has produced every chunk.
C16_Witness ==
    \E h \in Handlers :
        /\ InFlight(h)
        /\ early_cancel = session_id[h]
        /\ ~pulsed[h]
        /\ request[h] = MaxChunks /\ pos[h] = MaxChunks
        /\ RegistryAlive
        /\ ~aborted

\* ------------------------------------------------------------------ C12
\* C12: a backfiller that has been constructed, or that has begun to handle
\* any message, was given a store whose region equals its branch's region
\* and whose timestamp is at least the branch's initial timestamp; when
\* either fails the construction fails at once, before any message is
\* handled.
C12_ConstructionInvariant ==
    /\ (\/ ctor = "done"
        \/ \E h \in Handlers : Entered(h)
        \/ cancel_inflight # NoSession
        \/ early_cancel # NoSession
        \/ dtor # "alive")
          => (store_region = BranchRegion
                /\ store_timestamp >= BranchInitialTimestamp)
    /\ ctor = "failed"
          => /\ ~(store_region = BranchRegion
                    /\ store_timestamp >= BranchInitialTimestamp)
             /\ aborted
             /\ \A h \in Handlers : ~Entered(h)
    /\ ctor \in {"start", "advertised"}
          => /\ \A h \in Handlers : ~Entered(h)
             /\ cancel_inflight = NoSession

\* A constructed backfiller, whose store is exactly at the branch's initial
\* timestamp, has handled a start-backfill to its end.
C12_Witness ==
    /\ ctor = "done"
    /\ store_region = BranchRegion
    /\ store_timestamp = BranchInitialTimestamp
    /\ \E h \in Handlers : pc[h] = "returned" /\ success[h]

\* ------------------------------------------------------------------ C13
\* C13: when the region or the timestamp precondition is violated, the
\* construction has no visible effect: the advertisement is never published
\* and the mailboxes never exist.
C13_NoPartialConstruction ==
    ~(store_region = BranchRegion /\ store_timestamp >= BranchInitialTimestamp)
        => /\ ~AdvertisementPublished
           /\ ~BackfillMailboxAlive
           /\ ~CancelMailboxAlive

====
